---- MODULE Spec2Model ----
(***************************************************************************)
(* A model of swaystart: the window matcher and its registry               *)
(* (src/src/matcher.rs, src/src/node.rs), the layout replay orchestrator   *)
(* LayoutBuilder and the Swapper event loop (src/src/main.rs), the tree    *)
(* visitor (src/src/visit.rs) and the display client with its worker       *)
(* thread (src/src/placeholder.rs).                                        *)
(*                                                                         *)
(* Rust's Option<T> is modelled as a sequence of length 0 (None) or 1      *)
(* (Some(x)), so that values of one field always have one type.            *)
(***************************************************************************)
EXTENDS Integers, Sequences, FiniteSets, TLC

VARIABLES
    \* ---- Matcher::matches applied to one (matcher, node) pair
    mIn,        \* the Matcher
    nIn,        \* the candidate Node
    mRes,       \* <<>> before the call, <<result>> after it
    \* ---- Matchers (the registry)
    data,       \* Matchers.data : Vec<(i64, Vec<Matcher>)>
    regOp,      \* the last registry operation: "new", "add", "consume", "remove"
    regArg,     \* its argument: Some(node) for consume, Some(id) for remove/add
    regRet,     \* its return value as an Option: consume -> Option<i64>, remove -> Some(bool)
    nextId,     \* the next unused container id handed to add by its caller
    \* ---- main(): LayoutBuilder, then Swapper
    doc,        \* the Output read from the layout file
    todo,       \* the callbacks visit_output has still to make, in order
    phase,      \* where main() is: "build", "spawned", "swap", "done" (Ok) or
                \* "failed" (Err)
    bpc,        \* inside on_app: "idle", "wait_new" or "wait_focus"
    curId,      \* on_app: Some(node.id) once wait_new_window has returned
    mapping,    \* HashMap<String, Vec<i64>>: a function on the keys inserted
    wmWindows,  \* the placeholder windows the window manager holds: the
                \* app_id of each, at the index that is its container id
    count,      \* Swapper::swap's local counter
    lastEvent,  \* the item the event stream yielded to the last step
    lastCmds,   \* the commands the last step passed to run(), in order
    lastRes,    \* "ok" or "err": how the last step's callback or handler ended
    lastQueries, \* the number of get_tree() calls the last step made
    nSent,      \* NewWindow messages on_app has sent to the display client
    missed,     \* the application windows whose New event the window manager
                \* emitted before the Swapper had subscribed
    \* ---- visit_node applied to one tree (visit.rs)
    vTree,      \* the node visit_node is called with
    vTrace,     \* the callbacks made, in order
    vRes,       \* "none" before the call, then "ok" or "err"
    \* ---- the display client: ClientHandle and its worker thread
    chan,       \* the messages sent and not yet received
    chanOpen,   \* the Sender is alive (not dropped)
    cExit,      \* Client.exit
    cExitOnIdle, \* Client.exit_on_idle
    cWindows,   \* Client.windows, as the sequence of their numbers
    nCreated,   \* windows Client::new_window has created so far
    wpc,        \* the worker: "dispatch", "check", "exited" or "panicked"
    hWait,      \* ClientHandle.wait
    ctl         \* the control thread: "running", "joining" or "returned"

vars == <<mIn, nIn, mRes, data, regOp, regArg, regRet, nextId,
          doc, todo, phase, bpc, curId, mapping, wmWindows, count,
          lastEvent, lastCmds, lastRes, lastQueries, nSent, missed,
          vTree, vTrace, vRes,
          chan, chanOpen, cExit, cExitOnIdle, cWindows, nCreated,
          wpc, hWait, ctl>>

(***************************************************************************)
(* Bounds of the model.                                                    *)
(***************************************************************************)
MaxEntries == 3     \* registry entries alive at one time
MaxAdds == 4        \* add calls in one run of the registry
MaxSlots == 2       \* slots of the workspace's top layout
MaxNodes == 3       \* nodes below the node visit_node is called with
MaxWindows == 3     \* NewWindow messages sent to one display client

None == <<>>
Some(x) == <<x>>
IsSome(o) == Len(o) = 1
Unwrap(o) == o[1]

\* The strings window attributes are drawn from.
Strs == {"a", "b"}
OptStr == {None} \cup {Some(s) : s \in Strs}

(***************************************************************************)
(* node.rs: Matcher, and the attributes of swayipc::Node the matcher reads *)
(***************************************************************************)
Matcher == [app_id : OptStr, class : OptStr, instance : OptStr, name : OptStr]

WindowProperties == [class : OptStr, instance : OptStr]

\* Node.window_properties is an Option of a struct whose fields are Options.
Node ==
    [app_id : OptStr, name : OptStr,
     window_properties : {None} \cup {Some(p) : p \in WindowProperties}]

(***************************************************************************)
(* matcher.rs: Matcher::matches                                            *)
(***************************************************************************)
\* fn match_inner(matcher: &str, target: &str) -> bool
match_inner(matcher, target) == matcher = target

match_on_lenient(mf, tf) ==
    CASE IsSome(mf) /\ IsSome(tf) ->
            IF match_inner(Unwrap(mf), Unwrap(tf)) THEN "return_true" ELSE "return_false"
      [] OTHER -> "fallthrough"

\* macro match_on!: on (Some, Some) the enclosing function RETURNS the
\* comparison; on (Some, None) it returns false; otherwise control falls
\* through to the next statement.
match_on(mf, tf) ==
    CASE IsSome(mf) /\ IsSome(tf) ->
            IF match_inner(Unwrap(mf), Unwrap(tf)) THEN "return_true" ELSE "return_false"
      [] IsSome(mf) /\ ~IsSome(tf) -> "return_false"
      [] OTHER -> "fallthrough"

\* The temporary `wp` built from node.window_properties: and_then flattens
\* a missing struct and a missing field to None alike.
wp_of(node) ==
    [class |-> IF IsSome(node.window_properties)
                  THEN Unwrap(node.window_properties).class ELSE None,
     instance |-> IF IsSome(node.window_properties)
                     THEN Unwrap(node.window_properties).instance ELSE None]

\* fn matches(&self, node: &Node) -> bool: four match_on! in sequence.
Matcher_matches(m, node) ==
    LET r1 == match_on(m.app_id, node.app_id)
        r2 == match_on(m.name, node.name)
        wp == wp_of(node)
        r3 == match_on(m.class, wp.class)
        r4 == match_on(m.instance, wp.instance)
    IN  IF r1 # "fallthrough" THEN r1 = "return_true"
        ELSE IF r2 # "fallthrough" THEN r2 = "return_true"
        ELSE IF r3 # "fallthrough" THEN r3 = "return_true"
        ELSE IF r4 # "fallthrough" THEN r4 = "return_true"
        ELSE TRUE

(***************************************************************************)
(* matcher.rs: Matchers                                                    *)
(***************************************************************************)
RemoveAt(s, i) == SubSeq(s, 1, i - 1) \o SubSeq(s, i + 1, Len(s))

\* Iterator::position: the least index satisfying the predicate, if any.
Accepting(d, node) ==
    {i \in 1..Len(d) : \E k \in 1..Len(d[i][2]) : Matcher_matches(d[i][2][k], node)}

Min(S) == CHOOSE x \in S : \A y \in S : x <= y
Max(S) == CHOOSE x \in S : \A y \in S : x >= y

Matchers_matches_last(d, node) ==
    IF Accepting(d, node) = {} THEN None ELSE Some(Max(Accepting(d, node)))

\* fn matches(&self, node: &Node) -> Option<usize>
Matchers_matches(d, node) ==
    IF Accepting(d, node) = {} THEN None ELSE Some(Min(Accepting(d, node)))

Matchers_consume_drop_first(d, node) ==
    LET idx == Matchers_matches(d, node)
    IN  IF IsSome(idx)
        THEN <<RemoveAt(d, Unwrap(idx)), Some(d[Unwrap(idx)][1])>>
        ELSE <<IF Len(d) > 0 THEN Tail(d) ELSE d, None>>

\* pub fn consume(&mut self, node: &Node) -> Option<i64>, as <<data', ret>>
Matchers_consume(d, node) ==
    LET idx == Matchers_matches(d, node)
    IN  IF IsSome(idx)
        THEN <<RemoveAt(d, Unwrap(idx)), Some(d[Unwrap(idx)][1])>>
        ELSE <<d, None>>

IdPositions(d, id) == {i \in 1..Len(d) : d[i][1] = id}

Matchers_remove_swap(d, id) ==
    IF IdPositions(d, id) # {}
    THEN LET i == Min(IdPositions(d, id))
         IN  <<[k \in 1..(Len(d) - 1) |-> IF k = i THEN d[Len(d)] ELSE d[k]], TRUE>>
    ELSE <<d, FALSE>>

\* pub fn remove(&mut self, id: i64) -> bool, as <<data', ret>>
Matchers_remove(d, id) ==
    IF IdPositions(d, id) # {}
    THEN <<RemoveAt(d, Min(IdPositions(d, id))), TRUE>>
    ELSE <<d, FALSE>>

\* pub fn is_empty(&self) -> bool
Matchers_is_empty(d) == Len(d) = 0

\* pub fn add(&mut self, id: i64, ms: Vec<Matcher>)
Matchers_add(d, id, ms) == Append(d, <<id, ms>>)

(***************************************************************************)
(* main.rs: the layout document (Output, Workspace, Layout, Slot)          *)
(***************************************************************************)
Styles == {"tabbed", "splitv", "splith"}

NoLayout == [style |-> "none", slots |-> <<>>]

\* Slot { size, content: SlotContent::App(a) }: visit_slot passes (a, a).
AppSlot(size, app, id) ==
    [size |-> size, kind |-> "app", app |-> app, id |-> id, layout |-> NoLayout]

\* Slot { size, content: SlotContent::Container(layout) }
ContainerSlot(size, layout) ==
    [size |-> size, kind |-> "container", app |-> "", id |-> "", layout |-> layout]

\* Slot.size is an f64 read from the layout file; the sizes of the model are
\* written in hundredths: 29 is the f64 nearest to 0.29, 25 is 0.25.
Sizes == {29, 71}
AppKeys == {"term", "web"}

LeafSlots == {AppSlot(sz, k, k) : sz \in Sizes, k \in AppKeys}

\* A nested container of two leaves, and one without slots.
NestedLayouts ==
    {[style |-> "splitv",
      slots |-> <<AppSlot(25, "term", "term"), AppSlot(75, "term", "term")>>],
     [style |-> "splith", slots |-> <<>>]}

TopSlots == LeafSlots \cup {ContainerSlot(71, l) : l \in NestedLayouts}

SeqsUpTo(S, n) == UNION {[1..k -> S] : k \in 0..n}

Docs ==
    {[name |-> "out",
      workspaces |-> <<[name |-> "1", style |-> "tabbed",
                        layout |-> [style |-> st, slots |-> sl]]>>] :
        st \in Styles, sl \in SeqsUpTo(TopSlots, MaxSlots)}

(***************************************************************************)
(* main.rs: trait LayoutVisitor.  The traversal is deterministic, so it is *)
(* computed as the sequence of callbacks it makes; each callback's `?`     *)
(* abandons the rest.  on_slot is left at its default (a no-op returning   *)
(* Ok) by LayoutBuilder and is not listed.                                 *)
(***************************************************************************)
Call(cb, name, style, sizes, app, id) ==
    [cb |-> cb, name |-> name, style |-> style, sizes |-> sizes, app |-> app, id |-> id]

SlotSizes(layout) == [i \in 1..Len(layout.slots) |-> layout.slots[i].size]

RECURSIVE visit_layout(_), visit_slot(_), visit_rest(_, _)

\* fn visit_slot: on_slot, then the content
visit_slot(slot) ==
    IF slot.kind = "container"
    THEN visit_layout(slot.layout)
    ELSE <<Call("on_app", "", "", <<>>, slot.app, slot.id)>>

\* the `for s in rest` loop of visit_layout
visit_rest(slots, i) ==
    IF i > Len(slots) THEN <<>> ELSE visit_slot(slots[i]) \o visit_rest(slots, i + 1)

\* fn visit_layout: first slot, on_layout_enter, the rest, on_layout_exit;
\* nothing at all for a layout without slots
visit_layout(layout) ==
    IF Len(layout.slots) = 0
    THEN <<>>
    ELSE visit_slot(layout.slots[1])
         \o <<Call("on_layout_enter", "", layout.style, SlotSizes(layout), "", "")>>
         \o visit_rest(layout.slots, 2)
         \o <<Call("on_layout_exit", "", layout.style, SlotSizes(layout), "", "")>>

\* fn visit_workspace
visit_workspace(w) ==
    <<Call("on_workspace", w.name, w.style, <<>>, "", "")>> \o visit_layout(w.layout)

RECURSIVE visit_workspaces(_, _)
visit_workspaces(ws, i) ==
    IF i > Len(ws) THEN <<>> ELSE visit_workspace(ws[i]) \o visit_workspaces(ws, i + 1)

\* fn visit_output
visit_output(output) ==
    <<Call("on_output", output.name, "", <<>>, "", "")>>
    \o visit_workspaces(output.workspaces, 1)

(***************************************************************************)
(* Commands passed to run(), and what run() makes of a list of them        *)
(***************************************************************************)
\* op, con (the con_id criterion), arg (a name, a style or a dimension) and
\* num (pixels, or the other container of a swap) are the command's text;
\* slot is the index of the slot whose share a resize sets (0 for other
\* commands), kept to tell which child a resize is for.
Cmd(op, con, arg, num, slot) ==
    [op |-> op, con |-> con, arg |-> arg, num |-> num, slot |-> slot]

\* A handler that runs cmds in order, each with `?`: failAt = 0 when every
\* command succeeds, else the index of the command whose run() returns Err
\* (that command was sent; none after it is).
RunAll(cmds, failAt) ==
    IF failAt = 0 THEN <<cmds, "ok">> ELSE <<SubSeq(cmds, 1, failAt), "err">>

RECURSIVE SumSeq(_)
SumSeq(s) == IF Len(s) = 0 THEN 0 ELSE s[1] + SumSeq(Tail(s))

Reverse(s) == [i \in 1..Len(s) |-> s[Len(s) + 1 - i]]

(***************************************************************************)
(* main.rs: impl LayoutVisitor for LayoutBuilder                           *)
(***************************************************************************)
\* fn on_output
on_output(name) == <<Cmd("focus output", 0, name, 0, 0)>>

\* fn on_workspace: one run() of "workspace {name}; layout {style}"
on_workspace(name, style) == <<Cmd("workspace; layout", 0, name \o "; layout " \o style, 0, 0)>>

\* fn on_layout_enter
on_layout_enter(style) == <<Cmd("splith", 0, "", 0, 0), Cmd("layout", 0, style, 0, 0)>>

\* The nodes find_focused may return: the container id and the extent of its
\* rect (one extent per node, whichever the dimension asked).
FocusIds == {21, 22}
PxOf(id) == IF id = 21 THEN 500 ELSE 1000

\* The operands <<n.2, denom, tot_size_px>> of the model (sizes in
\* hundredths, sums of up to four of them, sums of up to four extents) for
\* which the f64 value of (n.2 / denom) * tot_size_px lies just below the
\* exact quotient, an integer: (0.29 / 1.0) * 1500.0 is 434.99999999999994
\* and (0.29 / 2.0) * 3000.0 likewise.  For all other operands of the model
\* the f64 value and the exact quotient have the same integer part.
F64BelowInteger == {<<29, 100, 1500>>, <<29, 200, 3000>>}

\* `((n.2 / denom) * tot_size_px) as i32`: the f64 product, truncated.
SizePx(share, denom, tot) ==
    IF <<share, denom, tot>> \in F64BelowInteger
    THEN (share * tot) \div denom - 1
    ELSE (share * tot) \div denom

ResizeCmds_same_order(nodes, dim, denom) ==
    LET tot == SumSeq([i \in 1..Len(nodes) |-> nodes[i][2]])
    IN  [i \in 1..Len(nodes) |->
            Cmd("focus; resize set", nodes[i][1], dim,
                SizePx(nodes[i][3], denom, tot), nodes[i][4])]

\* The second loop: `for n in nodes.iter().rev()`, where nodes holds
\* <<node.id, size_px, s.size, the index of slot s>> in the order pushed.
ResizeCmds(nodes, dim, denom) ==
    LET tot == SumSeq([i \in 1..Len(nodes) |-> nodes[i][2]])
        rev == Reverse(nodes)
    IN  [i \in 1..Len(rev) |->
            Cmd("focus; resize set", rev[i][1], dim,
                SizePx(rev[i][3], denom, tot), rev[i][4])]

\* The body of on_layout_exit for Splitv and Splith, as
\* <<commands run, "ok" or "err", number of get_tree() calls>>.
exit_split(style, sizes, foc, noFocusAt, failAt) ==
    LET n == Len(sizes)
        dim == IF style = "splitv" THEN "height" ELSE "width"
        denom == SumSeq(sizes)
        \* first loop: `for s in layout.slots.iter().rev()`
        nodes == [i \in 1..n |-> <<foc[i], PxOf(foc[i]), sizes[n + 1 - i], n + 1 - i>>]
        prevs == [i \in 1..n |-> Cmd("focus prev sibling", 0, "", 0, 0)]
        all == RunAll(prevs \o ResizeCmds(nodes, dim, denom)
                            \o <<Cmd("focus parent", 0, "", 0, 0)>>, failAt)
    IN  IF noFocusAt > 0 /\ (failAt = 0 \/ failAt >= noFocusAt)
        THEN <<SubSeq(prevs, 1, noFocusAt - 1), "err", noFocusAt>>
        ELSE <<all[1], all[2], IF Len(all[1]) >= n THEN n ELSE Len(all[1])>>

on_layout_exit_resize_tabbed(style, sizes, foc, noFocusAt, failAt) ==
    exit_split(style, sizes, foc, noFocusAt, failAt)

\* fn on_layout_exit.  foc[i] is the id of the node find_focused returns in
\* the i-th pass of the first loop, noFocusAt the pass in which it returns
\* None (0: never), failAt the failing command (0: none).
on_layout_exit(style, sizes, foc, noFocusAt, failAt) ==
    IF style = "tabbed"
    THEN LET out == RunAll(<<Cmd("focus parent", 0, "", 0, 0)>>, failAt)
         IN  <<out[1], out[2], 0>>
    ELSE exit_split(style, sizes, foc, noFocusAt, failAt)

\* The number of commands on_layout_exit issues when nothing fails.
ExitCmdCount(style, sizes) == IF style = "tabbed" THEN 1 ELSE 2 * Len(sizes) + 1

(***************************************************************************)
(* The window manager's event stream                                       *)
(***************************************************************************)
\* format!("swaystart-{}", id)
placeholder_app_id(id) == "swaystart-" \o id

\* The strings a window's app_id or class may be.
WinNames == AppKeys \cup {"misc"}

\* str::strip_prefix("swaystart-") over the app_ids of the model
strip_prefix(s) ==
    IF \E k \in WinNames : s = placeholder_app_id(k)
    THEN Some(CHOOSE k \in WinNames : s = placeholder_app_id(k))
    ELSE None

\* WindowEvent { change, container: Node { id, app_id, floating, window_properties } }
Ev(change, id, app_id, floating, wp) ==
    [change |-> change, id |-> id, app_id |-> app_id, floating |-> floating,
     window_properties |-> wp]

NoEv == Ev("none", 0, None, None, None)

\* What EventStream::next() yields: Some(Ok(event)), Some(Err(_)) or None.
ItemEvent(e) == [kind |-> "event", ev |-> e]
ItemErr == [kind |-> "err", ev |-> NoEv]
ItemEnd == [kind |-> "end", ev |-> NoEv]
NoItem == [kind |-> "none", ev |-> NoEv]

\* Container ids of application windows (placeholders have ids 1, 2, ...).
RealIds == {11, 12}

\* A Wayland window has an app_id and no window_properties; an X11 window
\* has window_properties (class, window_type) and no app_id.
WinProps ==
    {Some([class |-> Some("term"), window_type |-> t]) :
        t \in {None, Some("normal"), Some("dialog")}}
    \cup {Some([class |-> None, window_type |-> Some("normal")])}

\* <<app_id, floating, window_properties>> of an application window
WinKinds ==
    {<<a, None, None>> : a \in {None} \cup {Some(x) : x \in WinNames}}
    \cup {<<None, None, wp>> : wp \in WinProps}
    \cup {<<Some("term"), Some("user_on"), None>>}

\* Events about application windows.
RealEvents ==
    {Ev("new", id, k[1], k[2], k[3]) : id \in RealIds, k \in WinKinds}
    \cup {Ev(ch, id, Some("term"), None, None) : ch \in {"close", "focus"}, id \in RealIds}

\* Events about the placeholder windows the window manager holds.
PlaceholderEvents ==
    {Ev(ch, id, Some(wmWindows[id]), None, None) :
        ch \in {"close", "focus"}, id \in 1..Len(wmWindows)}

(***************************************************************************)
(* Specification Spec: main().  LayoutBuilder::new, visit_output, then     *)
(* Swapper::new and Swapper::swap.                                         *)
(***************************************************************************)
\* The variables of the specifications other than the one being run stay at
\* these values.
RegIdle == data = <<>> /\ regOp = "new" /\ regArg = None /\ regRet = None /\ nextId = 1

MatchIdle ==
    /\ mIn = [app_id |-> None, class |-> None, instance |-> None, name |-> None]
    /\ nIn = [app_id |-> None, name |-> None, window_properties |-> None]
    /\ mRes = None

\* A node without type, name or children.
NoTree == [node_type |-> "none", name |-> None, nodes |-> <<>>]

VisitIdle == vTree = NoTree /\ vTrace = <<>> /\ vRes = "none"

\* No ClientHandle exists.
WorkerIdle ==
    /\ chan = <<>>
    /\ chanOpen = FALSE
    /\ cExit = FALSE
    /\ cExitOnIdle = FALSE
    /\ cWindows = <<>>
    /\ nCreated = 0
    /\ wpc = "off"
    /\ hWait = FALSE
    /\ ctl = "off"

regVars == <<data, regOp, regArg, regRet, nextId>>
matchVars == <<mIn, nIn, mRes>>
visitVars == <<vTree, vTrace, vRes>>
workerVars == <<chan, chanOpen, cExit, cExitOnIdle, cWindows, nCreated,
                wpc, hWait, ctl>>
otherVars == <<mIn, nIn, mRes, data, regOp, regArg, regRet, nextId,
               visitVars, workerVars>>

mainVars == <<doc, todo, phase, bpc, curId, mapping, wmWindows, count,
              lastEvent, lastCmds, lastRes, lastQueries, nSent, missed>>

NoDoc == [name |-> "", workspaces |-> <<>>]

EmptyMapping == [k \in {} |-> <<>>]

MainIdle ==
    /\ doc = NoDoc
    /\ todo = <<>>
    /\ phase = "off"
    /\ bpc = "idle"
    /\ curId = None
    /\ mapping = EmptyMapping
    /\ wmWindows = <<>>
    /\ count = 0
    /\ lastEvent = NoItem
    /\ lastCmds = <<>>
    /\ lastRes = "ok"
    /\ lastQueries = 0
    /\ nSent = 0
    /\ missed = {}

Init ==
    /\ doc \in Docs
    /\ todo = visit_output(doc)
    /\ phase = "build"
    /\ bpc = "idle"
    /\ curId = None
    /\ mapping = EmptyMapping
    /\ wmWindows = <<>>
    /\ count = 0
    /\ lastEvent = NoItem
    /\ lastCmds = <<>>
    /\ lastRes = "ok"
    /\ lastQueries = 0
    /\ nSent = 0
    /\ missed = {}
    /\ RegIdle
    /\ MatchIdle
    /\ VisitIdle
    /\ WorkerIdle

AtCallback(cb) ==
    /\ phase = "build"
    /\ bpc = "idle"
    /\ todo # <<>>
    /\ Head(todo).cb = cb

Returned_goes_on(out) ==
    /\ lastCmds' = out[1]
    /\ lastRes' = out[2]
    /\ lastQueries' = IF Len(out) = 3 THEN out[3] ELSE 0
    /\ todo' = Tail(todo)
    /\ phase' = phase

\* A callback returned: Ok goes on with the traversal, Err leaves main().
Returned(out) ==
    /\ lastCmds' = out[1]
    /\ lastRes' = out[2]
    /\ lastQueries' = IF Len(out) = 3 THEN out[3] ELSE 0
    /\ IF out[2] = "ok"
       THEN todo' = Tail(todo) /\ phase' = phase
       ELSE todo' = todo /\ phase' = "failed"

BuildOnOutput ==
    /\ AtCallback("on_output")
    /\ \E failAt \in 0..1 : Returned(RunAll(on_output(Head(todo).name), failAt))
    /\ lastEvent' = NoItem
    /\ UNCHANGED <<doc, bpc, curId, mapping, wmWindows, count>>
    /\ UNCHANGED nSent
    /\ UNCHANGED missed
    /\ UNCHANGED otherVars

BuildOnWorkspace ==
    /\ AtCallback("on_workspace")
    /\ \E failAt \in 0..1 :
          Returned(RunAll(on_workspace(Head(todo).name, Head(todo).style), failAt))
    /\ lastEvent' = NoItem
    /\ UNCHANGED <<doc, bpc, curId, mapping, wmWindows, count>>
    /\ UNCHANGED nSent
    /\ UNCHANGED missed
    /\ UNCHANGED otherVars

BuildOnLayoutEnter ==
    /\ AtCallback("on_layout_enter")
    /\ \E failAt \in 0..2 : Returned(RunAll(on_layout_enter(Head(todo).style), failAt))
    /\ lastEvent' = NoItem
    /\ UNCHANGED <<doc, bpc, curId, mapping, wmWindows, count>>
    /\ UNCHANGED nSent
    /\ UNCHANGED missed
    /\ UNCHANGED otherVars

BuildOnLayoutExit ==
    /\ AtCallback("on_layout_exit")
    /\ LET c == Head(todo)
           n == Len(c.sizes)
       IN  \E foc \in [1..n -> FocusIds], noFocusAt \in 0..n,
              failAt \in 0..ExitCmdCount(c.style, c.sizes) :
                Returned(on_layout_exit(c.style, c.sizes, foc, noFocusAt, failAt))
    /\ lastEvent' = NoItem
    /\ UNCHANGED <<doc, bpc, curId, mapping, wmWindows, count>>
    /\ UNCHANGED nSent
    /\ UNCHANGED missed
    /\ UNCHANGED otherVars

\* on_app up to the first wait: DesktopAppInfo::new may find no such app
\* (Err); otherwise the NewWindow message is sent to the display client.
BuildOnApp ==
    /\ AtCallback("on_app")
    /\ \E found \in BOOLEAN :
          IF found
          THEN /\ bpc' = "wait_new"
               /\ nSent' = nSent + 1
               /\ lastRes' = "ok"
               /\ UNCHANGED <<todo, phase>>
          ELSE /\ lastRes' = "err"
               /\ phase' = "failed"
               /\ UNCHANGED <<todo, bpc, nSent>>
    /\ lastCmds' = <<>>
    /\ lastEvent' = NoItem
    /\ UNCHANGED <<doc, curId, mapping, wmWindows, count>>
    /\ lastQueries' = 0
    /\ UNCHANGED missed
    /\ UNCHANGED otherVars

mapping_push_insert(map, id, node_id) ==
    [k \in DOMAIN map \cup {id} |-> IF k = id THEN <<node_id>> ELSE map[k]]

\* HashMap::entry(id).or_default().push(node_id)
mapping_push(map, id, node_id) ==
    IF id \in DOMAIN map
    THEN [map EXCEPT ![id] = Append(@, node_id)]
    ELSE [k \in DOMAIN map \cup {id} |-> IF k = id THEN <<node_id>> ELSE map[k]]

\* The items the stream may yield while the builder waits: the New event of
\* the placeholder just requested (the window manager gives it the next
\* container id), events about other windows, an error, or the end.
BuildItems ==
    {ItemErr, ItemEnd}
    \cup {ItemEvent(e) : e \in RealEvents \cup PlaceholderEvents}
    \cup (IF bpc = "wait_new"
          THEN {ItemEvent(Ev("new", Len(wmWindows) + 1,
                             Some(placeholder_app_id(Head(todo).id)), None, None))}
          ELSE {})

wait_fails_on_err_only(item) == item.kind = "err"

\* wait_new_window / wait_window_focus: the items that make the wait return
\* Err: Some(Err(_)) by `event?`, and None by leaving the `while let` loop
\* for bail!("Event stream ended").
wait_fails(item) == item.kind # "event"

\* wait_new_window: the event that makes it return the node
wait_new_window_accepts(ev, app_id) ==
    ev.change = "new" /\ ev.app_id = Some(app_id)

wait_window_focus_any(ev, id) == ev.change = "focus"

\* wait_window_focus: `if event.container.id != id { continue; }`, then the
\* Focus arm returns
wait_window_focus_accepts(ev, id) == ev.id = id /\ ev.change = "focus"

\* fn wait_new_window, one pass of its loop, and on its return the push
\* into mapping.
BuildWaitNew ==
    /\ phase = "build"
    /\ bpc = "wait_new"
    /\ \E item \in BuildItems :
          /\ lastEvent' = item
          /\ IF wait_fails(item)
             THEN /\ lastRes' = "err"
                  /\ phase' = "failed"
                  /\ UNCHANGED <<bpc, curId, mapping, wmWindows>>
             ELSE IF wait_new_window_accepts(item.ev, placeholder_app_id(Head(todo).id))
             THEN /\ curId' = Some(item.ev.id)
                  /\ mapping' = mapping_push(mapping, Head(todo).id, item.ev.id)
                  /\ wmWindows' = Append(wmWindows, placeholder_app_id(Head(todo).id))
                  /\ bpc' = "wait_focus"
                  /\ UNCHANGED <<phase, lastRes>>
             ELSE UNCHANGED <<bpc, curId, mapping, wmWindows, phase, lastRes>>
    /\ lastCmds' = <<>>
    /\ UNCHANGED <<doc, todo, count>>
    /\ lastQueries' = 0
    /\ UNCHANGED nSent
    /\ UNCHANGED missed
    /\ UNCHANGED otherVars

\* fn wait_window_focus, one pass of its loop; on its return on_app is over.
BuildWaitFocus ==
    /\ phase = "build"
    /\ bpc = "wait_focus"
    /\ \E item \in BuildItems :
          /\ lastEvent' = item
          /\ IF wait_fails(item)
             THEN /\ lastRes' = "err"
                  /\ phase' = "failed"
                  /\ UNCHANGED <<bpc, curId, todo>>
             ELSE IF wait_window_focus_accepts(item.ev, Unwrap(curId))
             THEN /\ bpc' = "idle"
                  /\ curId' = None
                  /\ todo' = Tail(todo)
                  /\ UNCHANGED <<phase, lastRes>>
             ELSE UNCHANGED <<bpc, curId, todo, phase, lastRes>>
    /\ lastCmds' = <<>>
    /\ UNCHANGED <<doc, mapping, wmWindows, count>>
    /\ lastQueries' = 0
    /\ UNCHANGED nSent
    /\ UNCHANGED missed
    /\ UNCHANGED otherVars

(***************************************************************************)
(* main.rs: Swapper                                                        *)
(***************************************************************************)
\* The placeholder ids held anywhere in the mapping.
PendingIds(map) == UNION {{map[k][i] : i \in 1..Len(map[k])} : k \in DOMAIN map}

\* `for v in self.mapping.values() { count += v.len() }`
count_values(map) ==
    LET RECURSIVE Sum(_)
        Sum(K) == IF K = {} THEN 0
                  ELSE LET k == CHOOSE x \in K : TRUE
                       IN  Len(map[k]) + Sum(K \ {k})
    IN  Sum(DOMAIN map)

\* The apps of the document, in traversal order: one Spawner::on_app each.
spawner_apps(output) ==
    SelectSeq(visit_output(output), LAMBDA c : c.cb = "on_app")

\* `if args.spawn { spawner.visit_output(&output)? }`: one spawn() per app,
\* any of which may fail.
SpawnerVisit ==
    /\ phase = "build"
    /\ bpc = "idle"
    /\ todo = <<>>
    /\ \E failAt \in 0..Len(spawner_apps(doc)) :
          IF failAt = 0
          THEN phase' = "spawned" /\ lastRes' = "ok"
          ELSE phase' = "failed" /\ lastRes' = "err"
    /\ lastCmds' = <<>>
    /\ lastEvent' = NoItem
    /\ lastQueries' = 0
    /\ UNCHANGED <<doc, todo, bpc, curId, mapping, wmWindows, count, nSent, missed>>
    /\ UNCHANGED otherVars

\* The traversal of the LayoutBuilder has returned and Swapper::new has not
\* subscribed yet: the window manager maps an application window and emits
\* its New event to the subscriptions that exist.
WindowBeforeSubscribe ==
    /\ phase \in {"build", "spawned"}
    /\ bpc = "idle"
    /\ todo = <<>>
    /\ \E id \in RealIds \ missed : missed' = missed \cup {id}
    /\ UNCHANGED <<doc, todo, phase, bpc, curId, mapping, wmWindows, count,
                   lastEvent, lastCmds, lastRes, lastQueries, nSent>>
    /\ UNCHANGED otherVars

\* Swapper::new (two connections, either may fail) and the start of swap().
\* Nothing reads the document from here on (`output` is dead after the
\* Spawner), so it leaves the state.
SwapperNew ==
    /\ phase \in {"build", "spawned"}
    /\ bpc = "idle"
    /\ todo = <<>>
    /\ \E connected \in BOOLEAN :
          IF connected
          THEN /\ phase' = "swap"
               /\ count' = count_values(mapping)
               /\ lastRes' = "ok"
          ELSE /\ phase' = "failed"
               /\ lastRes' = "err"
               /\ UNCHANGED count
    /\ lastCmds' = <<>>
    /\ lastEvent' = NoItem
    /\ doc' = NoDoc
    /\ UNCHANGED <<todo, bpc, curId, mapping, wmWindows>>
    /\ lastQueries' = 0
    /\ UNCHANGED nSent
    /\ UNCHANGED missed
    /\ UNCHANGED otherVars

\* The items the stream may yield to the Swapper: the subscription of
\* Swapper::new receives the events emitted after it was made, and a window
\* has one New event.
SwapEvents ==
    {e \in RealEvents : e.change = "new" => e.id \notin missed}
    \cup PlaceholderEvents

\* `let matcher = ...` of the New arm: the string looked up in the mapping.
swap_matcher(c) ==
    IF IsSome(c.floating) THEN None
    ELSE IF /\ IsSome(c.window_properties)
            /\ Unwrap(c.window_properties).window_type # Some("normal")
    THEN None
    ELSE IF IsSome(c.window_properties)
    THEN Unwrap(c.window_properties).class
    ELSE c.app_id

Last(v) == v[Len(v)]
Front(v) == SubSeq(v, 1, Len(v) - 1)

take_placeholder_any_key(map, matcher) ==
    IF \E k \in DOMAIN map : Len(map[k]) > 0
    THEN LET k == CHOOSE x \in DOMAIN map : Len(map[x]) > 0
         IN  Some(<<Last(map[k]), [map EXCEPT ![k] = Front(@)]>>)
    ELSE None

\* `if let Some(m) = matcher { if let Some(v) = self.mapping.get_mut(m) {
\*  if let Some(con_id) = v.pop()`: Some(<<con_id, the mapping after the pop>>)
take_placeholder(map, matcher) ==
    IF /\ IsSome(matcher)
       /\ Unwrap(matcher) \in DOMAIN map
       /\ Len(map[Unwrap(matcher)]) > 0
    THEN LET k == Unwrap(matcher)
         IN  Some(<<Last(map[k]), [map EXCEPT ![k] = Front(@)]>>)
    ELSE None

swap_cmds_kill_first(con_id, win_id) ==
    <<Cmd("kill", con_id, "", 0, 0), Cmd("swap container with con_id", con_id, "", win_id, 0)>>

\* The two run() calls of a swap.
swap_cmds(con_id, win_id) ==
    <<Cmd("swap container with con_id", con_id, "", win_id, 0), Cmd("kill", con_id, "", 0, 0)>>

\* Vec::swap_remove(idx): the last element takes the place of the removed one.
swap_remove(v, idx) ==
    IF idx = Len(v) THEN Front(v) ELSE [Front(v) EXCEPT ![idx] = Last(v)]

close_remove_pop(map, c) ==
    LET id == IF IsSome(c.app_id) THEN strip_prefix(Unwrap(c.app_id)) ELSE None
    IN  IF IsSome(id) /\ Unwrap(id) \in DOMAIN map /\ Len(map[Unwrap(id)]) > 0
        THEN Some([map EXCEPT ![Unwrap(id)] = Front(@)])
        ELSE None

close_remove_by_key(map, c) ==
    LET id == IF IsSome(c.app_id) THEN strip_prefix(Unwrap(c.app_id)) ELSE None
    IN  IF IsSome(id) /\ Unwrap(id) \in DOMAIN map
        THEN LET v == map[Unwrap(id)]
                 pos == {i \in 1..Len(v) : v[i] = c.id}
             IN  IF pos # {}
                 THEN Some([map EXCEPT ![Unwrap(id)] = swap_remove(v, Min(pos))])
                 ELSE Some(map)
        ELSE None

\* The Close arm down to swap_remove: Some(the mapping after the removal)
\* when the closed container is a placeholder held in the mapping.
close_remove(map, c) ==
    LET id == IF IsSome(c.app_id) THEN strip_prefix(Unwrap(c.app_id)) ELSE None
    IN  IF IsSome(id) /\ Unwrap(id) \in DOMAIN map
        THEN LET v == map[Unwrap(id)]
                 pos == {i \in 1..Len(v) : v[i] = c.id}
             IN  IF pos # {}
                 THEN Some([map EXCEPT ![Unwrap(id)] = swap_remove(v, Min(pos))])
                 ELSE None
        ELSE None

Decrement_up ==
    /\ count' = count + 1
    /\ phase' = IF count + 1 = 0 THEN "done" ELSE "swap"

\* `count -= 1; if count == 0 { break; }`: the loop runs on, or swap()
\* returns Ok and main() after it.
Decrement ==
    /\ count' = count - 1
    /\ phase' = IF count - 1 = 0 THEN "done" ELSE "swap"

\* next() yields None: the `while let` loop ends and swap() returns Ok(()).
SwapStreamEnd ==
    /\ phase = "swap"
    /\ lastEvent' = ItemEnd
    /\ lastCmds' = <<>>
    /\ lastRes' = "ok"
    /\ phase' = "done"
    /\ UNCHANGED <<doc, todo, bpc, curId, mapping, wmWindows, count>>
    /\ lastQueries' = 0
    /\ UNCHANGED nSent
    /\ UNCHANGED missed
    /\ UNCHANGED otherVars

\* next() yields Some(Err(_)): `event?` returns the error.
SwapStreamErr ==
    /\ phase = "swap"
    /\ lastEvent' = ItemErr
    /\ lastCmds' = <<>>
    /\ lastRes' = "err"
    /\ phase' = "failed"
    /\ UNCHANGED <<doc, todo, bpc, curId, mapping, wmWindows, count>>
    /\ lastQueries' = 0
    /\ UNCHANGED nSent
    /\ UNCHANGED missed
    /\ UNCHANGED otherVars

\* WindowChange::Close
SwapClose ==
    /\ phase = "swap"
    /\ \E e \in SwapEvents :
          /\ e.change = "close"
          /\ lastEvent' = ItemEvent(e)
          /\ LET r == close_remove(mapping, e)
             IN  IF IsSome(r)
                 THEN mapping' = Unwrap(r) /\ Decrement
                 ELSE UNCHANGED <<mapping, count, phase>>
    /\ lastCmds' = <<>>
    /\ lastRes' = "ok"
    /\ UNCHANGED <<doc, todo, bpc, curId, wmWindows>>
    /\ lastQueries' = 0
    /\ UNCHANGED nSent
    /\ UNCHANGED missed
    /\ UNCHANGED otherVars

\* WindowChange::New
SwapNew ==
    /\ phase = "swap"
    /\ \E e \in SwapEvents :
          /\ e.change = "new"
          /\ lastEvent' = ItemEvent(e)
          /\ LET r == take_placeholder(mapping, swap_matcher(e))
             IN  IF IsSome(r)
                 THEN /\ mapping' = Unwrap(r)[2]
                      /\ \E failAt \in 0..2 :
                            LET out == RunAll(swap_cmds(Unwrap(r)[1], e.id), failAt)
                            IN  /\ lastCmds' = out[1]
                                /\ lastRes' = out[2]
                                /\ IF out[2] = "ok"
                                   THEN Decrement
                                   ELSE phase' = "failed" /\ UNCHANGED count
                 ELSE /\ \E failAt \in 0..1 :
                            LET out == RunAll(<<Cmd("floating enable", e.id, "", 0, 0)>>,
                                              failAt)
                            IN  /\ lastCmds' = out[1]
                                /\ lastRes' = out[2]
                                /\ phase' = IF out[2] = "ok" THEN "swap" ELSE "failed"
                      /\ UNCHANGED <<mapping, count>>
    /\ UNCHANGED <<doc, todo, bpc, curId, wmWindows>>
    /\ lastQueries' = 0
    /\ UNCHANGED nSent
    /\ UNCHANGED missed
    /\ UNCHANGED otherVars

\* Any other window change: ignored.
SwapOther ==
    /\ phase = "swap"
    /\ \E e \in SwapEvents :
          /\ e.change \notin {"new", "close"}
          /\ lastEvent' = ItemEvent(e)
    /\ lastCmds' = <<>>
    /\ lastRes' = "ok"
    /\ UNCHANGED <<doc, todo, bpc, curId, mapping, wmWindows, count, phase>>
    /\ lastQueries' = 0
    /\ UNCHANGED nSent
    /\ UNCHANGED missed
    /\ UNCHANGED otherVars

Next ==
    \/ BuildOnOutput
    \/ BuildOnWorkspace
    \/ BuildOnLayoutEnter
    \/ BuildOnLayoutExit
    \/ BuildOnApp
    \/ BuildWaitNew
    \/ BuildWaitFocus
    \/ SpawnerVisit
    \/ WindowBeforeSubscribe
    \/ SwapperNew
    \/ SwapStreamEnd
    \/ SwapStreamErr
    \/ SwapClose
    \/ SwapNew
    \/ SwapOther

Spec == Init /\ [][Next]_vars

(***************************************************************************)
(* Specification SpecMatch: Matcher::matches on every matcher and node     *)
(* over Strs.                                                              *)
(***************************************************************************)
InitMatch ==
    /\ mIn \in Matcher
    /\ nIn \in Node
    /\ mRes = None
    /\ RegIdle
    /\ MainIdle
    /\ VisitIdle
    /\ WorkerIdle

\* One call m.matches(&node).
CallMatches ==
    /\ mRes = None
    /\ mRes' = Some(Matcher_matches(mIn, nIn))
    /\ UNCHANGED <<mIn, nIn>>
    /\ UNCHANGED regVars
    /\ UNCHANGED mainVars
    /\ UNCHANGED <<visitVars, workerVars>>

NextMatch == CallMatches

SpecMatch == InitMatch /\ [][NextMatch]_vars

(***************************************************************************)
(* Specification SpecReg: a registry driven by add, consume and remove.    *)
(* Ids handed to add are fresh (the caller passes window-manager container *)
(* ids, which are never reused).                                           *)
(***************************************************************************)
MkMatcher(a, c) == [app_id |-> a, class |-> c, instance |-> None, name |-> None]

\* The matcher lists add is called with.
RegMatcherLists ==
    { <<>>,
      <<MkMatcher(Some("a"), None)>>,
      <<MkMatcher(Some("b"), None)>>,
      <<MkMatcher(None, Some("a"))>>,
      <<MkMatcher(None, None)>>,
      <<MkMatcher(Some("a"), None), MkMatcher(Some("b"), None)>> }

\* The candidate nodes consume is called with.
RegNodes ==
    {n \in Node : /\ n.name = None
                  /\ n.window_properties \in
                        {None, Some([class |-> Some("a"), instance |-> None])}}

InitReg == RegIdle /\ MatchIdle /\ MainIdle /\ VisitIdle /\ WorkerIdle

RegAdd ==
    /\ Len(data) < MaxEntries
    /\ nextId <= MaxAdds
    /\ \E ms \in RegMatcherLists :
          data' = Matchers_add(data, nextId, ms)
    /\ regOp' = "add"
    /\ regArg' = Some(nextId)
    /\ regRet' = None
    /\ nextId' = nextId + 1
    /\ UNCHANGED matchVars
    /\ UNCHANGED mainVars
    /\ UNCHANGED <<visitVars, workerVars>>

RegConsume ==
    /\ \E n \in RegNodes :
          /\ data' = Matchers_consume(data, n)[1]
          /\ regRet' = Matchers_consume(data, n)[2]
          /\ regArg' = Some(n)
    /\ regOp' = "consume"
    /\ UNCHANGED nextId
    /\ UNCHANGED matchVars
    /\ UNCHANGED mainVars
    /\ UNCHANGED <<visitVars, workerVars>>

RegRemove ==
    /\ \E id \in 1..MaxAdds :
          /\ data' = Matchers_remove(data, id)[1]
          /\ regRet' = Some(Matchers_remove(data, id)[2])
          /\ regArg' = Some(id)
    /\ regOp' = "remove"
    /\ UNCHANGED nextId
    /\ UNCHANGED matchVars
    /\ UNCHANGED mainVars
    /\ UNCHANGED <<visitVars, workerVars>>

NextReg == RegAdd \/ RegConsume \/ RegRemove

SpecReg == InitReg /\ [][NextReg]_vars

(***************************************************************************)
(* visit.rs: visit_node (trait LayoutLiteVisitor / LayoutVisitor).         *)
(* Specification SpecVisit: one call of visit_node on a tree of at most    *)
(* MaxNodes nodes below the node it is called with.                        *)
(***************************************************************************)
\* A node of the window manager's tree: node_type, name and children.
TreeNode(t, name, nodes) == [node_type |-> t, name |-> name, nodes |-> nodes]

\* <<node_type, name>> of the nodes of the model.  "floating_con" stands for
\* the node types that reach the `_ => {}` arm.
NodeLabels ==
    {<<"root", Some("__i3")>>, <<"root", Some("root")>>, <<"output", Some("__i3")>>,
     <<"output", Some("x")>>, <<"workspace", Some("x")>>, <<"con", Some("x")>>,
     <<"floating_con", None>>}

RECURSIVE Forests(_)
\* The lists of sibling trees that have n nodes in all.
Forests(n) ==
    IF n = 0 THEN {<<>>}
    ELSE UNION {
            {<<TreeNode(l[1], l[2], kids)>> \o rest :
                l \in NodeLabels, kids \in Forests(k - 1), rest \in Forests(n - k)} :
            k \in 1..n}

\* The nodes visit_node is called with, of at most max nodes below them:
\* only their children are looked at.
VisitTrees(max) ==
    {TreeNode("root", Some("root"), f) : f \in UNION {Forests(n) : n \in 0..max}}

\* One callback made on the child at `path` (the child indexes from the top).
VCall(cb, path) == [cb |-> cb, path |-> path]

is_scratch_never(c) == FALSE

\* `NodeType::Root => if c.name.as_deref() == Some("__i3") { continue; }`
is_scratch(c) == c.node_type = "root" /\ c.name = Some("__i3")

\* The callback of the `match c.node_type`, if the arm makes one.
callback_before(c) ==
    CASE c.node_type = "output" -> Some("on_output")
      [] c.node_type = "workspace" -> Some("on_workspace")
      [] c.node_type = "con" ->
            IF c.nodes = <<>> THEN Some("on_view") ELSE Some("on_container_enter")
      [] OTHER -> None

is_container_any_con(c) == c.node_type = "con"

\* `let mut is_container = false;` set in the Con arm for a non-empty node
is_container(c) == c.node_type = "con" /\ c.nodes # <<>>

RECURSIVE visit_children(_, _, _)
\* The callbacks of `for c in &node.nodes` from the i-th child on, when no
\* callback fails: the one of the match, the recursive call, on_container_exit.
visit_children(node, path, i) ==
    IF i > Len(node.nodes) THEN <<>>
    ELSE LET c == node.nodes[i]
             p == Append(path, i)
             here == IF is_scratch(c) THEN <<>>
                     ELSE (IF IsSome(callback_before(c))
                           THEN <<VCall(Unwrap(callback_before(c)), p)>> ELSE <<>>)
                          \o visit_children(c, p, 1)
                          \o (IF is_container(c)
                              THEN <<VCall("on_container_exit", p)>> ELSE <<>>)
         IN  here \o visit_children(node, path, i + 1)

\* fn visit_node: every callback is followed by `?`, so the callback that
\* returns Err (the failAt-th made, 0 for none) is the last one made and
\* visit_node returns Err.
visit_node(node, failAt) ==
    LET all == visit_children(node, <<>>, 1)
    IN  IF failAt = 0 THEN <<all, "ok">> ELSE <<SubSeq(all, 1, failAt), "err">>

InitVisit ==
    /\ vTree \in VisitTrees(MaxNodes)
    /\ vTrace = <<>>
    /\ vRes = "none"
    /\ RegIdle
    /\ MatchIdle
    /\ MainIdle
    /\ WorkerIdle

\* One call visitor.visit_node(&tree).
CallVisit ==
    /\ vRes = "none"
    /\ \E failAt \in 0..Len(visit_children(vTree, <<>>, 1)) :
          /\ vTrace' = visit_node(vTree, failAt)[1]
          /\ vRes' = visit_node(vTree, failAt)[2]
    /\ UNCHANGED vTree
    /\ UNCHANGED <<matchVars, regVars, mainVars, workerVars>>

NextVisit == CallVisit

SpecVisit == InitVisit /\ [][NextVisit]_vars

(***************************************************************************)
(* placeholder.rs: ClientHandle and the worker thread it spawns.           *)
(* Specification SpecWorker: the control thread uses the handle the way    *)
(* main() does (new_window from on_app, then either wait_until_idle after  *)
(* swap() returned Ok, or a plain drop when main() returns an error); the  *)
(* window manager asks the client to close windows at any time.            *)
(***************************************************************************)
\* enum ClientMsg
MsgNewWindow == "NewWindow"
MsgExitOnIdle == "ExitOnIdle"

\* The two tests after event_loop.dispatch(): `if client.exit { break; }`
\* and `if client.exit_on_idle && client.windows.is_empty() { break; }`
should_break_on_exit_only(exit, exit_on_idle, windows) == exit

should_break_idle_or_empty(exit, exit_on_idle, windows) ==
    exit \/ exit_on_idle \/ windows = <<>>

should_break(exit, exit_on_idle, windows) ==
    exit \/ (exit_on_idle /\ windows = <<>>)

drop_closes_channel_always(wait) == TRUE

\* Drop for ClientHandle: `if !self.wait { drop(chan) }`
drop_closes_channel(wait) == ~wait

\* The worker thread has ended, so the Receiver is gone and send() fails.
ReceiverGone == wpc \in {"exited", "panicked"}

swayVars == <<doc, todo, phase, bpc, curId, mapping, wmWindows, count,
              lastEvent, lastCmds, lastRes, lastQueries, missed>>

\* ClientHandle::new() has returned: the thread is spawned and enters its loop.
InitWorker ==
    /\ chan = <<>>
    /\ chanOpen = TRUE
    /\ cExit = FALSE
    /\ cExitOnIdle = FALSE
    /\ cWindows = <<>>
    /\ nCreated = 0
    /\ wpc = "dispatch"
    /\ hWait = FALSE
    /\ ctl = "running"
    /\ RegIdle
    /\ MatchIdle
    /\ MainIdle
    /\ VisitIdle

\* ClientHandle::new_window
CtlNewWindow ==
    /\ ctl = "running"
    /\ nSent < MaxWindows
    /\ ~ReceiverGone
    /\ chan' = Append(chan, MsgNewWindow)
    /\ nSent' = nSent + 1
    /\ UNCHANGED <<chanOpen, cExit, cExitOnIdle, cWindows, nCreated, wpc, hWait, ctl>>
    /\ UNCHANGED <<matchVars, regVars, visitVars, swayVars>>

\* ClientHandle::wait_until_idle, and the drop of `self` at its end up to
\* the join.
CtlWaitUntilIdle ==
    /\ ctl = "running"
    /\ ~ReceiverGone
    /\ chan' = Append(chan, MsgExitOnIdle)
    /\ hWait' = TRUE
    /\ chanOpen' = IF drop_closes_channel(TRUE) THEN FALSE ELSE chanOpen
    /\ ctl' = "joining"
    /\ UNCHANGED <<cExit, cExitOnIdle, cWindows, nCreated, wpc, nSent>>
    /\ UNCHANGED <<matchVars, regVars, visitVars, swayVars>>

\* The handle is dropped without wait_until_idle (main() returns an error):
\* Drop for ClientHandle up to the join.
CtlDrop ==
    /\ ctl = "running"
    /\ chanOpen' = IF drop_closes_channel(hWait) THEN FALSE ELSE chanOpen
    /\ ctl' = "joining"
    /\ UNCHANGED <<chan, cExit, cExitOnIdle, cWindows, nCreated, wpc, hWait, nSent>>
    /\ UNCHANGED <<matchVars, regVars, visitVars, swayVars>>

\* send() on a channel whose Receiver is gone: `.expect("failed to send")`
\* panics, and the unwinding drops the handle (wait is still false).
CtlSendFails ==
    /\ ctl = "running"
    /\ ReceiverGone
    /\ chanOpen' = IF drop_closes_channel(hWait) THEN FALSE ELSE chanOpen
    /\ ctl' = "panicked"
    /\ UNCHANGED <<chan, cExit, cExitOnIdle, cWindows, nCreated, wpc, hWait, nSent>>
    /\ UNCHANGED <<matchVars, regVars, visitVars, swayVars>>

\* `let _ = t.join();` returns once the thread has ended; then main() returns.
CtlJoin ==
    /\ ctl = "joining"
    /\ wpc \in {"exited", "panicked"}
    /\ ctl' = "returned"
    /\ UNCHANGED <<chan, chanOpen, cExit, cExitOnIdle, cWindows, nCreated, wpc, hWait, nSent>>
    /\ UNCHANGED <<matchVars, regVars, visitVars, swayVars>>

\* The channel source during dispatch(): Event::Msg for the oldest message.
WorkerRecv ==
    /\ wpc = "dispatch"
    /\ chan # <<>>
    /\ chan' = Tail(chan)
    /\ IF Head(chan) = MsgNewWindow
       THEN /\ cWindows' = Append(cWindows, nCreated + 1)
            /\ nCreated' = nCreated + 1
            /\ UNCHANGED cExitOnIdle
       ELSE /\ cExitOnIdle' = TRUE
            /\ UNCHANGED <<cWindows, nCreated>>
    /\ UNCHANGED <<chanOpen, cExit, wpc, hWait, ctl, nSent>>
    /\ UNCHANGED <<matchVars, regVars, visitVars, swayVars>>

\* The channel source during dispatch(): Event::Closed, once the Sender is
\* dropped and the queue is drained.
WorkerClosed ==
    /\ wpc = "dispatch"
    /\ ~chanOpen
    /\ chan = <<>>
    /\ ~cExit
    /\ cExit' = TRUE
    /\ UNCHANGED <<chan, chanOpen, cExitOnIdle, cWindows, nCreated, wpc, hWait, ctl, nSent>>
    /\ UNCHANGED <<matchVars, regVars, visitVars, swayVars>>

\* WindowHandler::request_close during dispatch(): the window manager asks
\* to close one of the windows.
WorkerRequestClose ==
    /\ wpc = "dispatch"
    /\ \E idx \in 1..Len(cWindows) : cWindows' = swap_remove(cWindows, idx)
    /\ UNCHANGED <<chan, chanOpen, cExit, cExitOnIdle, nCreated, wpc, hWait, ctl, nSent>>
    /\ UNCHANGED <<matchVars, regVars, visitVars, swayVars>>

\* dispatch() returns Ok after having handled what was ready.
WorkerDispatched ==
    /\ wpc = "dispatch"
    /\ wpc' = "check"
    /\ UNCHANGED <<chan, chanOpen, cExit, cExitOnIdle, cWindows, nCreated, hWait, ctl, nSent>>
    /\ UNCHANGED <<matchVars, regVars, visitVars, swayVars>>

\* dispatch() returns Err: `.unwrap()` panics and the thread ends.
WorkerPanic ==
    /\ wpc = "dispatch"
    /\ wpc' = "panicked"
    /\ UNCHANGED <<chan, chanOpen, cExit, cExitOnIdle, cWindows, nCreated, hWait, ctl, nSent>>
    /\ UNCHANGED <<matchVars, regVars, visitVars, swayVars>>

\* The tests at the end of the loop body: break, or the next dispatch().
WorkerCheck ==
    /\ wpc = "check"
    /\ wpc' = IF should_break(cExit, cExitOnIdle, cWindows) THEN "exited" ELSE "dispatch"
    /\ UNCHANGED <<chan, chanOpen, cExit, cExitOnIdle, cWindows, nCreated, hWait, ctl, nSent>>
    /\ UNCHANGED <<matchVars, regVars, visitVars, swayVars>>

NextWorker ==
    \/ CtlNewWindow
    \/ CtlWaitUntilIdle
    \/ CtlDrop
    \/ CtlSendFails
    \/ CtlJoin
    \/ WorkerRecv
    \/ WorkerClosed
    \/ WorkerRequestClose
    \/ WorkerDispatched
    \/ WorkerPanic
    \/ WorkerCheck

SpecWorker == InitWorker /\ [][NextWorker]_vars

\* The worker thread and the control thread are scheduled fairly.  Every
\* dispatch() polls the channel source, so a message that stays queued over
\* repeated dispatches is received (strong fairness: the source is not
\* polled while the loop runs its tests).  dispatch() returns within its
\* 16 ms timeout, the tests after it run, and join() returns once the thread
\* has ended.  Nothing obliges dispatch() to fail, the window manager to
\* close a window, or the control thread to go on calling the handle.
FairSpecWorker ==
    /\ SpecWorker
    /\ SF_vars(WorkerRecv)
    /\ WF_vars(WorkerDispatched)
    /\ WF_vars(WorkerCheck)
    /\ WF_vars(CtlJoin)

(***************************************************************************)
(* Claims about the matcher and the registry                               *)
(***************************************************************************)
\* An entry (id, matchers) accepts a node when one of its matchers does.
EntryAccepts(e, node) == \E k \in 1..Len(e[2]) : Matcher_matches(e[2][k], node)

\* C1: consume(x) returns and removes the entry added earliest among the
\* entries having a matcher that accepts x (so after add(A); add(B), both
\* accepting x, consume(x) gives A and a second consume(x) gives B).
C1_ConsumeFirstMatch ==
    [][ regOp' = "consume" =>
          LET x == Unwrap(regArg')
              acc == {i \in 1..Len(data) : EntryAccepts(data[i], x)}
          IN  acc # {} =>
                \E i \in acc :
                    /\ \A j \in acc : i <= j
                    /\ regRet' = Some(data[i][1])
                    /\ data' = RemoveAt(data, i) ]_vars

\* C1 witness: a consume returned an entry while a later entry that also
\* accepts the same candidate is still in the registry.
C1_Witness ==
    /\ regOp = "consume"
    /\ IsSome(regRet)
    /\ \E i \in 1..Len(data) :
          /\ EntryAccepts(data[i], Unwrap(regArg))
          /\ data[i][1] > Unwrap(regRet)

\* One field of a matcher passes: it is absent, or the candidate has the
\* field with exactly the same value.
FieldPasses(mf, tf) == mf = None \/ (IsSome(tf) /\ tf = mf)

AllFieldsPass(m, node) ==
    /\ FieldPasses(m.app_id, node.app_id)
    /\ FieldPasses(m.name, node.name)
    /\ FieldPasses(m.class, wp_of(node).class)
    /\ FieldPasses(m.instance, wp_of(node).instance)

\* C2: a matcher matches a candidate if and only if every one of its four
\* fields passes (absent, or present in the candidate with the same value).
C2_AllFieldsRequired ==
    IsSome(mRes) => (Unwrap(mRes) <=> AllFieldsPass(mIn, nIn))

OnlyAppId(m) ==
    IsSome(m.app_id) /\ m.name = None /\ m.class = None /\ m.instance = None

AllAbsent(m) ==
    m.app_id = None /\ m.name = None /\ m.class = None /\ m.instance = None

\* C3: a matcher with only app_id set matches exactly the nodes whose
\* app_id is present and equal, whatever their name, class and instance;
\* a matcher with no field set matches every node.
C3_AppIdOnly ==
    IsSome(mRes) =>
        /\ OnlyAppId(mIn) => (Unwrap(mRes) <=> nIn.app_id = mIn.app_id)
        /\ AllAbsent(mIn) => Unwrap(mRes)

\* C3 witness: an app_id-only matcher matched a node that also carries a
\* name and a class.
C3_Witness ==
    /\ mRes = Some(TRUE)
    /\ OnlyAppId(mIn)
    /\ IsSome(nIn.name)
    /\ IsSome(wp_of(nIn).class)

(***************************************************************************)
(* Claims about the Swapper                                                *)
(***************************************************************************)
\* The step being taken is the Swapper handling a window event of this kind.
SwapHandles(change) ==
    /\ phase = "swap"
    /\ lastEvent'.kind = "event"
    /\ lastEvent'.ev.change = change

\* The placeholders pending under the string a new window is looked up by.
Candidates(map, e) ==
    LET m == swap_matcher(e)
    IN  IF IsSome(m) /\ Unwrap(m) \in DOMAIN map
        THEN {map[Unwrap(m)][i] : i \in 1..Len(map[Unwrap(m)])}
        ELSE {}

\* The closed container is a placeholder still held in the mapping.
ClosesPending(map, e) ==
    \E k \in DOMAIN map :
        /\ e.app_id = Some(placeholder_app_id(k))
        /\ \E i \in 1..Len(map[k]) : map[k][i] = e.id

Ops(cmds) == [i \in 1..Len(cmds) |-> cmds[i].op]

\* C4: swap() returns Ok only when no placeholder is pending; in particular
\* not when the event stream ends with a placeholder still pending.
C4_OkOnlyWhenEmpty ==
    phase = "done" => PendingIds(mapping) = {}

\* C5: on a New event that matches a pending placeholder, exactly one entry
\* leaves the mapping and the commands are "swap container" of that
\* placeholder with the new window, then "kill" of the same placeholder;
\* the kill never precedes the swap and is not sent when the swap fails.
C5_SwapThenKill ==
    [][ (SwapHandles("new") /\ Candidates(mapping, lastEvent'.ev) # {}) =>
          \E con \in Candidates(mapping, lastEvent'.ev) :
              LET sw == Cmd("swap container with con_id", con, "", lastEvent'.ev.id, 0)
                  kl == Cmd("kill", con, "", 0, 0)
              IN  /\ PendingIds(mapping') = PendingIds(mapping) \ {con}
                  /\ lastCmds' \in {<<sw>>, <<sw, kl>>}
                  /\ lastRes' = "ok" => lastCmds' = <<sw, kl>>
                  /\ lastCmds' = <<sw>> => lastRes' = "err" ]_vars

\* C5 witness: a matched New event was handled with both commands run.
C5_Witness ==
    /\ phase \in {"swap", "done"}
    /\ lastEvent.kind = "event"
    /\ lastEvent.ev.change = "new"
    /\ lastRes = "ok"
    /\ Ops(lastCmds) = <<"swap container with con_id", "kill">>

\* C6: when several pending placeholders would accept the arriving window,
\* it is swapped into the earliest-created one (container ids are handed
\* out in creation order, so the one with the least id).
C6_EarliestWins ==
    [][ (SwapHandles("new") /\ Candidates(mapping, lastEvent'.ev) # {}) =>
          /\ lastCmds' # <<>>
          /\ lastCmds'[1].con = Min(Candidates(mapping, lastEvent'.ev)) ]_vars

\* C7: a New event that matches no pending placeholder leaves the mapping
\* and the counter as they were, and sends neither a swap nor a kill.
C7_UnmatchedNewKeepsRegistry ==
    [][ (SwapHandles("new") /\ Candidates(mapping, lastEvent'.ev) = {}) =>
          /\ mapping' = mapping
          /\ count' = count
          /\ \A i \in 1..Len(lastCmds') :
                lastCmds'[i].op \notin {"swap container with con_id", "kill"} ]_vars

\* C7 witness: an unmatched New event was handled while placeholders were
\* pending.
C7_Witness ==
    /\ phase = "swap"
    /\ lastEvent.kind = "event"
    /\ lastEvent.ev.change = "new"
    /\ lastEvent.ev.app_id = Some("misc")
    /\ Ops(lastCmds) = <<"floating enable">>
    /\ PendingIds(mapping) # {}

\* C8: a Closed event for a pending placeholder removes that placeholder's
\* entry and no other, and whenever a handler that ends well removes the
\* last pending entry (by swap or by close) swap() returns Ok.
C8_ClosePendingRemoves ==
    [][ phase = "swap" =>
          /\ (SwapHandles("close") /\ ClosesPending(mapping, lastEvent'.ev)) =>
                /\ DOMAIN mapping' = DOMAIN mapping
                /\ \A k \in DOMAIN mapping :
                      /\ {mapping'[k][i] : i \in 1..Len(mapping'[k])}
                            = {mapping[k][i] : i \in 1..Len(mapping[k])}
                                 \ {lastEvent'.ev.id}
                      /\ Len(mapping'[k]) = Len(mapping[k])
                            - (IF lastEvent'.ev.app_id = Some(placeholder_app_id(k))
                               THEN 1 ELSE 0)
                /\ count' = count - 1
          /\ (PendingIds(mapping) # {} /\ PendingIds(mapping') = {} /\ lastRes' = "ok")
                => phase' = "done" ]_vars

\* C8 witness: the last pending placeholder was closed unmatched after
\* another one had left the mapping, and swap() returned Ok.
C8_Witness ==
    /\ phase = "done"
    /\ lastEvent.kind = "event"
    /\ lastEvent.ev.change = "close"
    /\ PendingIds(mapping) = {}
    /\ Len(wmWindows) >= 2

(***************************************************************************)
(* Claims about LayoutBuilder::on_layout_exit                              *)
(***************************************************************************)
\* The step being taken is on_layout_exit for a container of this kind.
LeavesSplit == AtCallback("on_layout_exit") /\ Head(todo).style # "tabbed"
LeavesTabbed == AtCallback("on_layout_exit") /\ Head(todo).style = "tabbed"

\* C9 as stated: n resizes, last child first, each immediately followed by
\* one "focus prev sibling", then one "focus parent".
C9_ResizeThenPrevPairs ==
    [][ (LeavesSplit /\ lastRes' = "ok") =>
          LET n == Len(Head(todo).sizes)
          IN  /\ Len(lastCmds') = 2 * n + 1
              /\ \A i \in 1..n :
                    /\ lastCmds'[2 * i - 1].op = "focus; resize set"
                    /\ lastCmds'[2 * i - 1].slot = n + 1 - i
                    /\ lastCmds'[2 * i].op = "focus prev sibling"
              /\ lastCmds'[2 * n + 1].op = "focus parent" ]_vars

\* C9 amended: n "focus prev sibling" first (one per child measured, last
\* child first), then n resizes, first child first, the one for child i
\* addressed by con_id to the node measured in pass n + 1 - i and set to
\* that child's share of the measured total, then one "focus parent".
C9_PrevsThenResizes ==
    [][ (LeavesSplit /\ lastRes' = "ok") =>
          LET n == Len(Head(todo).sizes)
          IN  /\ Len(lastCmds') = 2 * n + 1
              /\ lastQueries' = n
              /\ \A i \in 1..n :
                    /\ lastCmds'[i].op = "focus prev sibling"
                    /\ lastCmds'[n + i].op = "focus; resize set"
                    /\ lastCmds'[n + i].slot = i
                    /\ lastCmds'[n + i].arg =
                          (IF Head(todo).style = "splitv" THEN "height" ELSE "width")
              /\ \E foc \in [1..n -> FocusIds] :
                    \A i \in 1..n :
                        /\ lastCmds'[n + i].con = foc[n + 1 - i]
                        /\ lastCmds'[n + i].num =
                              SizePx(Head(todo).sizes[i], SumSeq(Head(todo).sizes),
                                     SumSeq([j \in 1..n |-> PxOf(foc[j])]))
              /\ lastCmds'[2 * n + 1].op = "focus parent" ]_vars

\* C9 witness: a split container of at least two children was left.
C9_Witness ==
    /\ phase = "build"
    /\ lastRes = "ok"
    /\ Len(lastCmds) >= 5
    /\ lastCmds[1].op = "focus prev sibling"
    /\ lastCmds[Len(lastCmds)].op = "focus parent"

\* C10: leaving a Tabbed container sends the one command "focus parent":
\* no resize, no "focus prev sibling", no tree query.
C10_TabbedOnlyFocusParent ==
    [][ LeavesTabbed =>
          /\ Ops(lastCmds') = <<"focus parent">>
          /\ lastQueries' = 0 ]_vars

\* C10 witness: a Tabbed container was left.
C10_Witness ==
    /\ phase = "build"
    /\ lastRes = "ok"
    /\ Ops(lastCmds) = <<"focus parent">>
    /\ lastQueries = 0

\* C22: on leaving a split container whose sizes sum to 1 (100 hundredths),
\* the resize for child i names the split axis (height for splitv, width
\* for splith) and sets floor(size of child i x extent) pixels, where the
\* extent is the total of the extents measured; and the resize values sum
\* to at most that extent and to more than that extent minus the number of
\* children.
C22_ResizeIsFloorOfShare ==
    [][ (LeavesSplit /\ lastRes' = "ok" /\ SumSeq(Head(todo).sizes) = 100) =>
          LET sizes == Head(todo).sizes
              n == Len(sizes)
              total == SumSeq([i \in 1..n |-> lastCmds'[n + i].num])
          IN  \E foc \in [1..n -> FocusIds] :
                 LET extent == SumSeq([j \in 1..n |-> PxOf(foc[j])])
                 IN  /\ \A i \in 1..n :
                           /\ lastCmds'[n + i].con = foc[n + 1 - i]
                           /\ lastCmds'[n + i].arg =
                                 (IF Head(todo).style = "splitv" THEN "height" ELSE "width")
                           /\ lastCmds'[n + i].num = (sizes[i] * extent) \div 100
                     /\ total <= extent
                     /\ total > extent - n ]_vars

(***************************************************************************)
(* Further claims about the registry                                       *)
(***************************************************************************)
\* C16: remove(id) returns true and leaves the entries whose id differs, in
\* their order, when an entry has that id; it returns false and leaves the
\* registry as it was when none has.
C16_RemoveKeepsOthersInOrder ==
    [][ regOp' = "remove" =>
          LET id == Unwrap(regArg')
          IN  IF \E i \in 1..Len(data) : data[i][1] = id
              THEN /\ regRet' = Some(TRUE)
                   /\ data' = SelectSeq(data, LAMBDA e : e[1] # id)
              ELSE /\ regRet' = Some(FALSE)
                   /\ data' = data ]_vars

\* remove took the earliest of three entries: the two later ones are left,
\* in insertion order.
C16_Witness ==
    /\ regOp = "remove"
    /\ regRet = Some(TRUE)
    /\ Len(data) = 2
    /\ Unwrap(regArg) < data[1][1]
    /\ data[1][1] < data[2][1]

\* C17: consume(x), when no matcher of any entry accepts x, returns None
\* and leaves the registry as it was.
C17_ConsumeMissKeepsRegistry ==
    [][ (regOp' = "consume"
            /\ \A i \in 1..Len(data) : ~EntryAccepts(data[i], Unwrap(regArg')))
          => (regRet' = None /\ data' = data) ]_vars

\* A consume found nothing in a registry of three entries, one of them
\* with matchers.
C17_Witness ==
    /\ regOp = "consume"
    /\ regRet = None
    /\ Len(data) = 3
    /\ \E i \in 1..Len(data) : Len(data[i][2]) > 0

(***************************************************************************)
(* Claims about visit_node                                                 *)
(***************************************************************************)
RECURSIVE NodeAt(_, _)
\* The node reached from `tree` by the child indexes of path p.
NodeAt(tree, p) == IF p = <<>> THEN tree ELSE NodeAt(tree.nodes[Head(p)], Tail(p))

RECURSIVE TreePaths(_)
\* The paths of the node itself (<<>>) and of all its descendants.
TreePaths(node) ==
    {<<>>} \cup UNION {{<<i>> \o q : q \in TreePaths(node.nodes[i])} :
                          i \in 1..Len(node.nodes)}

Descendants(tree) == TreePaths(tree) \ {<<>>}

IsPrefix(p, q) == Len(p) <= Len(q) /\ SubSeq(q, 1, Len(p)) = p

IsProperPrefix(p, q) == IsPrefix(p, q) /\ p # q

\* The node at p, or one of its ancestors below the top, is a Root node
\* named "__i3".
InScratch(tree, p) ==
    \E k \in 1..Len(p) :
        LET n == NodeAt(tree, SubSeq(p, 1, k))
        IN  n.node_type = "root" /\ n.name = Some("__i3")

HasCallback(n) == n.node_type \in {"output", "workspace", "con"}

\* C11: no callback is made for a Root child named "__i3" or for any of its
\* descendants, whether the traversal completes or is cut short; and a
\* traversal that completes makes a callback for every output, workspace
\* and Con node outside such a subtree, the siblings before and after the
\* skipped child included.
C11_ScratchSkipped ==
    vRes # "none" =>
        /\ \A i \in 1..Len(vTrace) : ~InScratch(vTree, vTrace[i].path)
        /\ vRes = "ok" =>
              \A p \in Descendants(vTree) :
                  (~InScratch(vTree, p) /\ HasCallback(NodeAt(vTree, p)))
                      => \E i \in 1..Len(vTrace) : vTrace[i].path = p

\* A completed traversal of a tree whose first child is the scratch node
\* with a Con below it, followed by a sibling that got its callback.
C11_Witness ==
    /\ vRes = "ok"
    /\ Len(vTree.nodes) = 2
    /\ vTree.nodes[1].node_type = "root"
    /\ vTree.nodes[1].name = Some("__i3")
    /\ Len(vTree.nodes[1].nodes) = 1
    /\ vTree.nodes[1].nodes[1].node_type = "con"
    /\ vTree.nodes[2].node_type = "con"
    /\ vTrace = <<VCall("on_view", <<2>>)>>

\* The indexes of the trace at which callback cb is made for the node at p.
CallsOf(cb, p) == {i \in 1..Len(vTrace) : vTrace[i] = VCall(cb, p)}

\* p comes before q in depth-first list order.
PathBefore(p, q) ==
    \/ IsProperPrefix(p, q)
    \/ \E k \in 1..Len(p) :
          /\ k <= Len(q)
          /\ SubSeq(p, 1, k - 1) = SubSeq(q, 1, k - 1)
          /\ p[k] < q[k]

\* C12: in a completed traversal the callbacks made on the way down come in
\* depth-first list order; a Con node outside the scratch subtree that has
\* children gets one on_container_enter and one on_container_exit and no
\* on_view, and the callbacks between the two are exactly those of its
\* descendants; a Con node without children gets one on_view and neither
\* on_container_enter nor on_container_exit.
C12_NestedEnterExit ==
    vRes = "ok" =>
        /\ \A i, j \in 1..Len(vTrace) :
              (i < j /\ vTrace[i].cb # "on_container_exit"
                     /\ vTrace[j].cb # "on_container_exit")
                  => PathBefore(vTrace[i].path, vTrace[j].path)
        /\ \A p \in Descendants(vTree) :
              (~InScratch(vTree, p) /\ NodeAt(vTree, p).node_type = "con") =>
                  IF NodeAt(vTree, p).nodes # <<>>
                  THEN /\ Cardinality(CallsOf("on_container_enter", p)) = 1
                       /\ Cardinality(CallsOf("on_container_exit", p)) = 1
                       /\ CallsOf("on_view", p) = {}
                       /\ \A i \in CallsOf("on_container_enter", p),
                             j \in CallsOf("on_container_exit", p) :
                               /\ i < j
                               /\ \A k \in 1..Len(vTrace) :
                                     IsProperPrefix(p, vTrace[k].path) <=> (i < k /\ k < j)
                  ELSE /\ Cardinality(CallsOf("on_view", p)) = 1
                       /\ CallsOf("on_container_enter", p) = {}
                       /\ CallsOf("on_container_exit", p) = {}

\* A completed traversal of a container holding a container holding a view.
C12_Witness ==
    /\ vRes = "ok"
    /\ vTrace = <<VCall("on_container_enter", <<1>>),
                  VCall("on_container_enter", <<1, 1>>),
                  VCall("on_view", <<1, 1, 1>>),
                  VCall("on_container_exit", <<1, 1>>),
                  VCall("on_container_exit", <<1>>)>>

(***************************************************************************)
(* Claims about the replay (LayoutBuilder)                                 *)
(***************************************************************************)
\* C13: from the NewWindow message of a leaf until its on_app returns, no
\* step passes a command to run() or sends another NewWindow; the first wait
\* ends (other than by an error) only on a New event whose app_id is the
\* leaf's placeholder label, and the id of that event is the one kept; the
\* second wait ends only on a Focus event with that id; and only the end
\* of the second wait lets the traversal go on.
C13_WaitsForNewThenFocus ==
    [][(phase = "build" /\ bpc # "idle") =>
          /\ lastCmds' = <<>>
          /\ nSent' = nSent
          /\ (bpc = "wait_new" /\ bpc' # "wait_new") =>
                /\ bpc' = "wait_focus"
                /\ lastEvent'.kind = "event"
                /\ lastEvent'.ev.change = "new"
                /\ lastEvent'.ev.app_id = Some("swaystart-" \o Head(todo).id)
                /\ curId' = Some(lastEvent'.ev.id)
          /\ (bpc = "wait_focus" /\ bpc' # "wait_focus") =>
                /\ bpc' = "idle"
                /\ lastEvent'.kind = "event"
                /\ lastEvent'.ev.change = "focus"
                /\ lastEvent'.ev.id = Unwrap(curId)
          /\ todo' # todo => (bpc = "wait_focus" /\ bpc' = "idle")
      ]_vars

\* The second leaf's on_app has returned on the Focus event of its own
\* placeholder (container 2) while the first placeholder is still there.
C13_Witness ==
    /\ phase = "build"
    /\ bpc = "idle"
    /\ nSent = 2
    /\ Len(wmWindows) = 2
    /\ lastEvent.kind = "event"
    /\ lastEvent.ev.change = "focus"
    /\ lastEvent.ev.id = 2

\* The ids held under key k of a mapping.
IdsUnder(map, k) == {map[k][i] : i \in 1..Len(map[k])}

\* C18: no step of Swapper::swap adds a key, an id under a key, or an entry
\* to the mapping, and none raises the count of outstanding placeholders.
C18_RegistryOnlyShrinks ==
    [][ phase = "swap" =>
          /\ DOMAIN mapping' \subseteq DOMAIN mapping
          /\ \A k \in DOMAIN mapping' :
                /\ IdsUnder(mapping', k) \subseteq IdsUnder(mapping, k)
                /\ Len(mapping'[k]) <= Len(mapping[k])
          /\ PendingIds(mapping') \subseteq PendingIds(mapping)
          /\ count' <= count ]_vars

\* The swap loop runs on after a step that took one placeholder out of
\* three from the mapping.
C18_Witness ==
    /\ phase = "swap"
    /\ lastEvent.kind = "event"
    /\ Len(wmWindows) = 3
    /\ Cardinality(PendingIds(mapping)) = 2
    /\ count = 2

RECURSIVE SlotsLeaves(_)
\* The ids of the leaves (app slots) below a list of slots, in document
\* order.
SlotsLeaves(slots) ==
    IF slots = <<>> THEN <<>>
    ELSE (IF Head(slots).kind = "app"
          THEN <<Head(slots).id>>
          ELSE SlotsLeaves(Head(slots).layout.slots))
         \o SlotsLeaves(Tail(slots))

RECURSIVE WorkspacesLeaves(_)
WorkspacesLeaves(ws) ==
    IF ws = <<>> THEN <<>>
    ELSE SlotsLeaves(Head(ws).layout.slots) \o WorkspacesLeaves(Tail(ws))

\* The traversal of the document has returned Ok and the Swapper is not
\* built yet.
ReplayDone == phase = "build" /\ bpc = "idle" /\ todo = <<>>

\* The indexes of the leaves with id k, in increasing order, as a sequence.
RECURSIVE IndexesOf(_, _, _)
IndexesOf(leaves, k, i) ==
    IF i > Len(leaves) THEN <<>>
    ELSE (IF leaves[i] = k THEN <<i>> ELSE <<>>) \o IndexesOf(leaves, k, i + 1)

\* C19: when the replay has succeeded, one NewWindow message was sent per
\* leaf, the window manager holds one placeholder per leaf, the n-th of them
\* (container id n, the id its New event reported) carrying the n-th leaf's
\* label; the mapping holds under each id string the container ids of the
\* leaves with that id, in traversal order, and nothing else; so the
\* entries the Swapper is given are as many as the leaves.
C19_OneEntryPerLeaf ==
    ReplayDone =>
        LET leaves == WorkspacesLeaves(doc.workspaces)
        IN  /\ nSent = Len(leaves)
            /\ Len(wmWindows) = Len(leaves)
            /\ \A i \in 1..Len(leaves) : wmWindows[i] = "swaystart-" \o leaves[i]
            /\ DOMAIN mapping = {leaves[i] : i \in 1..Len(leaves)}
            /\ \A k \in DOMAIN mapping : mapping[k] = IndexesOf(leaves, k, 1)
            /\ count_values(mapping) = Len(leaves)

\* A replay of three leaves has succeeded, two of them with the same id.
C19_Witness ==
    /\ ReplayDone
    /\ Len(wmWindows) = 3
    /\ \E k \in DOMAIN mapping : Len(mapping[k]) >= 2

\* C20: a step of the replay that ends in an error (a failed command among
\* them) leaves main() at once: the callbacks not yet made stay unmade, no
\* NewWindow message is sent, the placeholders and the mapping stay as they
\* are; and no step is taken once main() has returned the error.
C20_FailureAborts ==
    [][ /\ phase # "failed"
        /\ (phase = "build" /\ lastRes' = "err") =>
              /\ phase' = "failed"
              /\ todo' = todo
              /\ nSent' = nSent
              /\ wmWindows' = wmWindows
              /\ mapping' = mapping ]_vars

\* A command failed after two placeholders were created, with callbacks
\* still to make: main() has returned the error and the placeholders are
\* still there.
C20_Witness ==
    /\ phase = "failed"
    /\ lastRes = "err"
    /\ lastCmds # <<>>
    /\ todo # <<>>
    /\ Len(wmWindows) = 2
    /\ PendingIds(mapping) = {1, 2}

\* C21: when the stream ends (next() yields None) while on_app waits for
\* the New event or for the Focus event, the wait returns an error and no
\* window: no id is kept or pushed, the traversal stops where it is and
\* main() returns the error; from there no step is taken, so the Swapper is
\* never built.
C21_StreamEndAbortsReplay ==
    [][ /\ (phase = "build" /\ bpc # "idle" /\ lastEvent'.kind = "end") =>
              /\ lastRes' = "err"
              /\ phase' = "failed"
              /\ curId' = curId
              /\ mapping' = mapping
              /\ todo' = todo
              /\ bpc' = bpc
        /\ phase = "failed" => phase' = "failed" ]_vars

\* The stream ended during the wait for the Focus event of the second
\* placeholder: main() has returned the error.
C21_Witness ==
    /\ phase = "failed"
    /\ bpc = "wait_focus"
    /\ lastEvent.kind = "end"
    /\ lastRes = "err"
    /\ Len(wmWindows) = 2

\* C23: while Swapper::swap runs its loop (it is waiting for the next item
\* of the stream, or handling one) some placeholder is pending: with none
\* pending, at its start included, swap has returned Ok.
C23_EmptyRegistryEndsSwap ==
    phase = "swap" => PendingIds(mapping) # {}

\* The closed container is a placeholder the window manager holds that is
\* no longer in the mapping.
ClosesGone(map, e) ==
    /\ e.id \in 1..Len(wmWindows)
    /\ e.id \notin PendingIds(map)

\* C25: whenever swap() runs its loop, count is the number of ids held in
\* the mapping and is not negative; a handler that ends well lowers count by
\* exactly the number of ids that left the mapping, at most one; and the
\* Close event of a placeholder that already left the mapping changes
\* neither the mapping nor count, and does not end the loop.
C25_CountIsPending ==
    [][ /\ phase' = "swap" =>
              /\ count' = count_values(mapping')
              /\ count' = Cardinality(PendingIds(mapping'))
              /\ count' >= 0
        /\ (phase = "swap" /\ lastRes' = "ok" /\ lastEvent'.kind = "event") =>
              /\ count - count' = count_values(mapping) - count_values(mapping')
              /\ count - count' \in {0, 1}
        /\ (SwapHandles("close") /\ ClosesGone(mapping, lastEvent'.ev)) =>
              /\ mapping' = mapping
              /\ count' = count
              /\ phase' = "swap" ]_vars

\* C25 witness: the Close event of a placeholder that was already swapped
\* out of the mapping was handled while another placeholder was pending
\* under the same key.
C25_Witness ==
    /\ phase = "swap"
    /\ lastEvent.kind = "event"
    /\ lastEvent.ev.change = "close"
    /\ lastEvent.ev.id \in 1..Len(wmWindows)
    /\ lastEvent.ev.id \notin PendingIds(mapping)
    /\ \E k \in DOMAIN mapping :
          /\ lastEvent.ev.app_id = Some(placeholder_app_id(k))
          /\ Len(mapping[k]) > 0
    /\ count = 1

\* C24: the Swapper can still be handed the New event of every application
\* window that appeared after the traversal of the LayoutBuilder returned
\* (after the Spawner launched the applications included): none was emitted
\* before the subscription and lost.
C24_NoNewEventLost ==
    phase = "swap" =>
        \A id \in missed :
            \E e \in SwapEvents : e.change = "new" /\ e.id = id

(***************************************************************************)
(* Claims about the display client                                         *)
(***************************************************************************)
\* C14: when the worker has left its loop, either it had received the
\* closing of the channel (which the control side had then dropped), or it
\* had received the idle-shutdown request (which had then been sent) and
\* holds no window; so it never leaves on idle-shutdown with a window open,
\* nor on having no window before idle-shutdown was requested.
C14_ExitOnlyOnStopOrIdle ==
    /\ cExit => ~chanOpen
    /\ cExitOnIdle => hWait
    /\ wpc = "exited" => (cExit \/ (cExitOnIdle /\ cWindows = <<>>))

\* The worker created windows, they were all closed, and it left on
\* idle-shutdown, the channel never having been dropped.
C14_Witness ==
    /\ wpc = "exited"
    /\ ~cExit
    /\ cExitOnIdle
    /\ nCreated >= 2
    /\ cWindows = <<>>

\* C15: once wait_until_idle was called, the idle-shutdown request is sent
\* (received already, or still in the channel), the control thread is
\* joining or has returned, and the channel is never dropped, so the worker
\* never receives the immediate stop; the control thread returns only after
\* the worker thread has ended; and a worker that left its loop on this path
\* has received every message, created a window for every NewWindow sent and
\* holds none of them any more.
C15_IdleShutdownThenJoin ==
    /\ hWait =>
          /\ chanOpen
          /\ ~cExit
          /\ ctl \in {"joining", "returned"}
          /\ cExitOnIdle \/ \E i \in 1..Len(chan) : chan[i] = "ExitOnIdle"
          /\ wpc = "exited" => (cWindows = <<>> /\ chan = <<>> /\ nCreated = nSent)
    /\ ctl = "returned" => wpc \in {"exited", "panicked"}

\* main() has returned after wait_until_idle, the worker having left its
\* loop after its two windows were closed.
C15_Witness ==
    /\ hWait
    /\ ctl = "returned"
    /\ wpc = "exited"
    /\ nSent = 2
    /\ nCreated = 2

\* wait_until_idle() was called, every NewWindow message sent was received
\* and every window created was closed at the window manager's request.
IdleRequestedAllClosed ==
    /\ hWait
    /\ nCreated = nSent
    /\ cWindows = <<>>

\* C26: under fair scheduling, once wait_until_idle() has sent ExitOnIdle
\* and every window the worker created was closed by a close request, the
\* worker thread ends (its loop breaks, unless dispatch() failed and the
\* thread panicked) and the join of the control thread returns; and the
\* worker never leaves its loop on idle with a NewWindow message sent before
\* ExitOnIdle still unprocessed.
C26_IdleShutdownTerminates ==
    /\ IdleRequestedAllClosed ~>
          (ctl = "returned" /\ (wpc = "exited" \/ wpc = "panicked"))
    /\ []((wpc = "exited" /\ ~cExit) =>
             /\ cExitOnIdle
             /\ nCreated = nSent
             /\ chan = <<>>)

\* C26 witness: one window was created and closed, the worker left its loop
\* on idle and the join returned.
C26_Witness ==
    /\ hWait
    /\ nSent = 1
    /\ nCreated = 1
    /\ cWindows = <<>>
    /\ wpc = "exited"
    /\ ~cExit
    /\ ctl = "returned"

====
